---------------------------- MODULE Spec2Model ----------------------------
(***************************************************************************)
(* Safety-score service of sunhacks-saferoute:                             *)
(*   services/safety-score/scoring.py  (score_route and its helpers)       *)
(*   services/safety-score/ingest.py   (the batch job that builds the DB) *)
(*   services/safety-score/app.py      (POST /score-route)                 *)
(*                                                                         *)
(* Representation of the Python values:                                    *)
(*  - None is <<>> and a present value v is <<v>> (Some(v)), so that a     *)
(*    nullable column keeps one TLA+ type;                                 *)
(*  - coordinates are integers in grid units of 10/111000 degree (the      *)
(*    size that the code's degree conversion gives to 10 metres); the      *)
(*    modelled routes lie next to (0,0), where cos(lat) = 1 and the        *)
(*    haversine formula of a short segment is the Euclidean length;        *)
(*  - floats are fixed point: time factors and band accumulators in        *)
(*    tenths, severities in hundredths, lengths in metres, log2 in Q14,    *)
(*    scores in 1/10000 before rounding and in thousandths after           *)
(*    round(.,3);                                                          *)
(*  - a timestamp is a day number; datetime.now() is the variable now.     *)
(***************************************************************************)
EXTENDS Integers, Sequences, FiniteSets, TLC

None == <<>>
Some(v) == <<v>>
IsNone(x) == x = <<>>
Val(x) == x[1]

Min2(a, b) == IF a <= b THEN a ELSE b
Max2(a, b) == IF a >= b THEN a ELSE b
Abs(a) == IF a < 0 THEN -a ELSE a

(***************************************************************************)
(* scoring.py: the static tables                                           *)
(***************************************************************************)
INCIDENT_LABELS ==
    [k \in {"Arson/Fire Call", "Assault Call", "Bomb Threat Call", "Burglary Call",
            "Criminal Information Call", "Criminal Damage Call", "Drugs Call",
            "Drunk Driver Call", "Extra Patrol Request Call", "Drunk Disturbing Call",
            "Fight Call", "Robbery Call", "Runaway Juvenile Call", "Sexual Abuse Call",
            "Shooting Call", "Shots Fired Call", "Stolen Vehicle Call",
            "Suspicious Person/Vehicle Call", "Theft/Burglary From Vehicle Call",
            "Unknown Trouble Call"} |->
        CASE k = "Arson/Fire Call" -> "Arson/Fire"
          [] k = "Assault Call" -> "Assault"
          [] k = "Bomb Threat Call" -> "Bomb Threat"
          [] k = "Burglary Call" -> "Burglary"
          [] k = "Criminal Information Call" -> "Criminal Info"
          [] k = "Criminal Damage Call" -> "Criminal Damage"
          [] k = "Drugs Call" -> "Drugs/Alcohol"
          [] k = "Drunk Driver Call" -> "DUI / Drunk Driver"
          [] k = "Extra Patrol Request Call" -> "Extra Patrol"
          [] k = "Drunk Disturbing Call" -> "Public Intoxication"
          [] k = "Fight Call" -> "Fight / Altercation"
          [] k = "Robbery Call" -> "Robbery"
          [] k = "Runaway Juvenile Call" -> "Runaway Juvenile"
          [] k = "Sexual Abuse Call" -> "Sexual Abuse"
          [] k = "Shooting Call" -> "Shooting"
          [] k = "Shots Fired Call" -> "Shots Fired"
          [] k = "Stolen Vehicle Call" -> "Stolen Vehicle"
          [] k = "Suspicious Person/Vehicle Call" -> "Suspicious Person/Vehicle"
          [] k = "Theft/Burglary From Vehicle Call" -> "Vehicle Theft/Burglary"
          [] k = "Unknown Trouble Call" -> "Unknown Trouble"]

\* severity coefficients in hundredths
SEVERITY_WEIGHT ==
    [k \in DOMAIN INCIDENT_LABELS |->
        CASE k = "Assault Call" -> 80
          [] k = "Sexual Abuse Call" -> 90
          [] k = "Shooting Call" -> 90
          [] k = "Shots Fired Call" -> 70
          [] k = "Robbery Call" -> 70
          [] k = "Fight Call" -> 60
          [] k = "Arson/Fire Call" -> 50
          [] k = "Bomb Threat Call" -> 60
          [] k = "Burglary Call" -> 40
          [] k = "Criminal Damage Call" -> 30
          [] k = "Drugs Call" -> 30
          [] k = "Theft/Burglary From Vehicle Call" -> 30
          [] k = "Stolen Vehicle Call" -> 30
          [] k = "Drunk Driver Call" -> 40
          [] k = "Criminal Information Call" -> 10
          [] k = "Extra Patrol Request Call" -> 5
          [] k = "Drunk Disturbing Call" -> 20
          [] k = "Runaway Juvenile Call" -> 10
          [] k = "Suspicious Person/Vehicle Call" -> 20
          [] k = "Unknown Trouble Call" -> 15]

\* SEVERITY_WEIGHT.get(., 0.15): the default of an unrecognized type, in hundredths
DEFAULT_SEVERITY == 15
\* the band thresholds of score_route, in hundredths
HIGH_SEVERITY == 60
MODERATE_SEVERITY == 30

(***************************************************************************)
(* str.strip() on the strings of the modelled universe: the strings that   *)
(* carry surrounding whitespace, each with its trimmed form; every other   *)
(* modelled string has none and is returned as it is.                      *)
(***************************************************************************)
PaddedStrings ==
    [s \in {" Assault Call ", "Extra Patrol Request Call ", " Graffiti"} |->
        CASE s = " Assault Call " -> "Assault Call"
          [] s = "Extra Patrol Request Call " -> "Extra Patrol Request Call"
          [] s = " Graffiti" -> "Graffiti"]

strip(s) == IF s \in DOMAIN PaddedStrings THEN PaddedStrings[s] ELSE s

(***************************************************************************)
(* Python dicts are sequences of <<key, value>> pairs in insertion order,  *)
(* with distinct keys.                                                     *)
(***************************************************************************)
DictKeys(d) == {d[i][1] : i \in 1..Len(d)}
DictGet(d, k, default) ==
    IF k \in DictKeys(d)
    THEN (d[CHOOSE i \in 1..Len(d) : d[i][1] = k])[2]
    ELSE default
DictSet(d, k, v) ==
    IF k \in DictKeys(d)
    THEN [i \in 1..Len(d) |-> IF d[i][1] = k THEN <<k, v>> ELSE d[i]]
    ELSE Append(d, <<k, v>>)
\* the mapping a dict denotes (insertion order forgotten)
DictMap(d) == [k \in DictKeys(d) |-> DictGet(d, k, 0)]

(***************************************************************************)
(* scoring.py: days_since, time_decay_factor, friendly_breakdown           *)
(***************************************************************************)
\* A stored datetime string is [fmt, day]: "iso" is an ISO-8601 string,
\* "isoZ" the same with a trailing Z (removed by replace("Z", "")), and
\* "text" a string datetime.fromisoformat rejects.
fromisoformat_ok(date_str) ==
    /\ ~IsNone(date_str)
    /\ Val(date_str).fmt \in {"iso", "isoZ"}

STALE_DAYS == 365

\* an unparseable timestamp taken for one of today
days_since_unparsed_as_new(date_str, today) ==
    IF ~fromisoformat_ok(date_str)
    THEN 0
    ELSE today - Val(date_str).day

days_since(date_str, today) ==
    IF ~fromisoformat_ok(date_str)
    THEN STALE_DAYS               \* except Exception: return 365
    ELSE today - Val(date_str).day

\* the steps in the reverse order: the older, the heavier
time_decay_factor_growing(days_ago) ==
    IF days_ago <= 7 THEN 1
    ELSE IF days_ago <= 30 THEN 2
    ELSE IF days_ago <= 90 THEN 4
    ELSE IF days_ago <= 180 THEN 6
    ELSE IF days_ago <= 365 THEN 8
    ELSE 10

\* the steps of the second and third month exchanged
time_decay_factor_exchanged(days_ago) ==
    IF days_ago <= 7 THEN 10
    ELSE IF days_ago <= 30 THEN 6
    ELSE IF days_ago <= 90 THEN 8
    ELSE IF days_ago <= 180 THEN 4
    ELSE IF days_ago <= 365 THEN 2
    ELSE 1

\* the breakpoints compared strictly
time_decay_factor_strict(days_ago) ==
    IF days_ago < 7 THEN 10
    ELSE IF days_ago < 30 THEN 8
    ELSE IF days_ago < 90 THEN 6
    ELSE IF days_ago < 180 THEN 4
    ELSE IF days_ago < 365 THEN 2
    ELSE 1

\* the weight in tenths
time_decay_factor(days_ago) ==
    IF days_ago <= 7 THEN 10
    ELSE IF days_ago <= 30 THEN 8
    ELSE IF days_ago <= 90 THEN 6
    ELSE IF days_ago <= 180 THEN 4
    ELSE IF days_ago <= 365 THEN 2
    ELSE 1

RECURSIVE friendly_from(_, _, _)
friendly_from(breakdown, i, acc) ==
    IF i > Len(breakdown) THEN acc
    ELSE LET k == strip(breakdown[i][1])
             label == IF k \in DOMAIN INCIDENT_LABELS THEN INCIDENT_LABELS[k] ELSE k
         IN friendly_from(breakdown, i + 1, DictSet(acc, label, breakdown[i][2]))

friendly_breakdown(breakdown) == friendly_from(breakdown, 1, <<>>)


(***************************************************************************)
(* Integer helpers of the fixed-point arithmetic                           *)
(***************************************************************************)
RECURSIVE SqrtIter(_, _)
SqrtIter(n, x) ==
    LET y == (x + n \div x) \div 2
    IN IF y >= x THEN x ELSE SqrtIter(n, y)

\* floor of the square root, by Newton's iteration from a value that is not
\* below the root (46341 squared exceeds every integer TLC represents)
ISqrt(n) == IF n <= 0 THEN 0 ELSE SqrtIter(n, Min2(n, 46341))

Q14 == 2^14    \* the unit of the fixed-point logarithm

\* the largest e with den * 2^e <= num (num >= den > 0)
RECURSIVE Log2Int(_, _)
Log2Int(num, den) == IF num < 2 * den THEN 0 ELSE 1 + Log2Int(num, 2 * den)

RECURSIVE Pow2(_)
Pow2(e) == IF e = 0 THEN 1 ELSE 2 * Pow2(e - 1)

\* the fraction bits of log2(m / 2^14), 2^14 <= m < 2^15, by repeated squaring
RECURSIVE Log2Frac(_, _, _)
Log2Frac(m, bit, acc) ==
    IF bit = 0 THEN acc
    ELSE LET sq == (m * m) \div Q14
         IN IF sq >= 2 * Q14
            THEN Log2Frac(sq \div 2, bit \div 2, acc + bit)
            ELSE Log2Frac(sq, bit \div 2, acc)

\* log2(num / den) in Q14, rounded down; num >= den > 0
Log2Q14(num, den) ==
    LET e == Log2Int(num, den)
        m == (num * Q14) \div (den * Pow2(e))
    IN e * Q14 + Log2Frac(m, Q14 \div 2, 0)

\* math.log(1 + 10) as log2(11) in Q14: 3.459431... * 2^14
LOG2_11_Q14 == 56679

(***************************************************************************)
(* Geometry: shapely's Point(...).buffer(r), LineString(...).buffer(r)     *)
(* and contains(pt).  A buffer is the set of points nearer than r to the   *)
(* point or polyline (shapely approximates the round parts by a polygon    *)
(* inscribed in the circle and contains() excludes the boundary; on the    *)
(* integer grid and for the modelled radii no grid point lies between the  *)
(* polygon and the circle).                                                *)
(***************************************************************************)
METERS_PER_DEGREE == 111000
GridPerDegree == METERS_PER_DEGREE \div 10

\* buffer_m / 111_000 degrees, in grid units
deg_buffer(buffer_m) == (buffer_m * GridPerDegree) \div METERS_PER_DEGREE

\* p strictly nearer than r to c
NearPoint(p, c, r) ==
    LET dx == p.lon - c.lon
        dy == p.lat - c.lat
    IN /\ Abs(dx) < r
       /\ Abs(dy) < r
       /\ dx * dx + dy * dy < r * r

\* p strictly nearer than r to the segment from a to b
NearSegment(p, a, b, r) ==
    LET abx == b.lon - a.lon
        aby == b.lat - a.lat
        apx == p.lon - a.lon
        apy == p.lat - a.lat
        len2 == abx * abx + aby * aby
        dot == apx * abx + apy * aby
        cross == apx * aby - apy * abx
    IN /\ p.lon > Min2(a.lon, b.lon) - r
       /\ p.lon < Max2(a.lon, b.lon) + r
       /\ p.lat > Min2(a.lat, b.lat) - r
       /\ p.lat < Max2(a.lat, b.lat) + r
       /\ IF dot <= 0 THEN NearPoint(p, a, r)
          ELSE IF dot >= len2 THEN NearPoint(p, b, r)
          ELSE cross * cross < r * r * len2

\* route_buffer: the corridor of score_route, as [points, r]
route_buffer(points, buffer_m) == [r |-> deg_buffer(buffer_m), points |-> points]

\* route_buffer.contains(Point(lon, lat))
contains(buf, pt) ==
    IF Len(buf.points) < 2
    THEN NearPoint(pt, buf.points[1], buf.r)
    ELSE \E i \in 1..(Len(buf.points) - 1) :
            NearSegment(pt, buf.points[i], buf.points[i + 1], buf.r)

(***************************************************************************)
(* scoring.py: calculate_route_length, in metres                           *)
(***************************************************************************)
EARTH_RADIUS_KM == 6371
MIN_LENGTH_M == 100     \* 0.1 km

\* math.radians of a grid coordinate, in 1e-7 rad (pi / (180 * 11100) = 1.5724e-6)
radians(g) == (g * 1572) \div 100

\* 6371 * c of one segment, in metres; c = 2 asin(sqrt(a)) is the Euclidean
\* norm of (dlat, dlon) for the short segments next to the equator
segment_length(p, q) ==
    LET dlat == radians(q.lat) - radians(p.lat)
        dlon == radians(q.lon) - radians(p.lon)
        c == ISqrt(dlat * dlat + dlon * dlon)
    IN (EARTH_RADIUS_KM * c) \div 10000

RECURSIVE total_length(_, _)
total_length(points, i) ==
    IF i > Len(points) THEN 0
    ELSE segment_length(points[i - 1], points[i]) + total_length(points, i + 1)

\* the length without its minimum of 0.1 km
calculate_route_length_unclamped(points) ==
    IF Len(points) < 2 THEN 0 ELSE total_length(points, 2)

\* the minimum applied to single-point routes only
calculate_route_length_single_only(points) ==
    IF Len(points) < 2 THEN MIN_LENGTH_M ELSE total_length(points, 2)

calculate_route_length(points) ==
    IF Len(points) < 2
    THEN MIN_LENGTH_M
    ELSE Max2(total_length(points, 2), MIN_LENGTH_M)


(***************************************************************************)
(* scoring.py: score_route                                                 *)
(*                                                                         *)
(* The database file data/safety.db is [file, table, rows, lead]: whether   *)
(* the file exists, whether it holds the table incidents, and the table's  *)
(* rows [itype, lat, lon, dt] in rowid order, every column nullable.  A    *)
(* table too long to be written out row by row is its last rows preceded   *)
(* by lead further records, all of them far from every modelled route.     *)
(***************************************************************************)
NoDb == [file |-> FALSE, table |-> FALSE, rows |-> <<>>, lead |-> 0]
EmptyDb == [file |-> TRUE, table |-> FALSE, rows |-> <<>>, lead |-> 0]
Table(rows) == [file |-> TRUE, table |-> TRUE, rows |-> rows, lead |-> 0]
\* the table of rows that follow n far-away records
TableAfter(n, rows) == [file |-> TRUE, table |-> TRUE, rows |-> rows, lead |-> n]

FETCH_LIMIT == 5000

\* SELECT incident_type, latitude, longitude, datetime FROM incidents LIMIT 5000
\* (the first 5000 records in rowid order; the far-away records among them are
\* skipped by the loop and are left out of the result here)
fetchall(dbv) ==
    SubSeq(dbv.rows, 1, Max2(0, Min2(Len(dbv.rows), FETCH_LIMIT - dbv.lead)))

\* the rows the loop does not skip: coordinates present and inside the corridor
in_corridor(buf, row) ==
    /\ ~IsNone(row.lat)
    /\ ~IsNone(row.lon)
    /\ contains(buf, [lon |-> Val(row.lon), lat |-> Val(row.lat)])

\* the lookup on the type as stored, not trimmed
severity_of_untrimmed(itype) ==
    IF itype \in DOMAIN SEVERITY_WEIGHT
    THEN SEVERITY_WEIGHT[itype]
    ELSE DEFAULT_SEVERITY

severity_of(itype) ==
    IF strip(itype) \in DOMAIN SEVERITY_WEIGHT
    THEN SEVERITY_WEIGHT[strip(itype)]
    ELSE DEFAULT_SEVERITY

\* an iteration that adds severity * time_factor to the band, not time_factor
loop_body_severity_weighted(acc, row, buf, today) ==
    IF acc.raised \/ ~in_corridor(buf, row) THEN acc
    ELSE IF IsNone(row.itype)
    THEN [acc EXCEPT !.raised = TRUE]
    ELSE LET severity == severity_of(Val(row.itype))
             weight == (severity * time_decay_factor(days_since(row.dt, today))) \div 100
             key == strip(Val(row.itype))
             counted == DictSet(acc.breakdown, key, DictGet(acc.breakdown, key, 0) + 1)
         IN IF severity >= HIGH_SEVERITY
            THEN [acc EXCEPT !.high = @ + weight, !.breakdown = counted]
            ELSE IF severity >= MODERATE_SEVERITY
            THEN [acc EXCEPT !.moderate = @ + weight, !.breakdown = counted]
            ELSE [acc EXCEPT !.low = @ + weight, !.breakdown = counted]

\* an iteration whose band thresholds are compared strictly
loop_body_strict_bands(acc, row, buf, today) ==
    IF acc.raised \/ ~in_corridor(buf, row) THEN acc
    ELSE IF IsNone(row.itype)
    THEN [acc EXCEPT !.raised = TRUE]
    ELSE LET severity == severity_of(Val(row.itype))
             time_factor == time_decay_factor(days_since(row.dt, today))
             key == strip(Val(row.itype))
             counted == DictSet(acc.breakdown, key, DictGet(acc.breakdown, key, 0) + 1)
         IN IF severity > HIGH_SEVERITY
            THEN [acc EXCEPT !.high = @ + time_factor, !.breakdown = counted]
            ELSE IF severity > MODERATE_SEVERITY
            THEN [acc EXCEPT !.moderate = @ + time_factor, !.breakdown = counted]
            ELSE [acc EXCEPT !.low = @ + time_factor, !.breakdown = counted]

\* one iteration of "for itype, lat, lon, dt in rows" on the accumulators
\* acc = [high, moderate, low, breakdown, raised]
loop_body(acc, row, buf, today) ==
    IF acc.raised \/ ~in_corridor(buf, row) THEN acc          \* continue
    ELSE IF IsNone(row.itype)
    THEN [acc EXCEPT !.raised = TRUE]                         \* None.strip()
    ELSE LET severity == severity_of(Val(row.itype))
             time_factor == time_decay_factor(days_since(row.dt, today))
             key == strip(Val(row.itype))
             counted == DictSet(acc.breakdown, key, DictGet(acc.breakdown, key, 0) + 1)
         IN IF severity >= HIGH_SEVERITY
            THEN [acc EXCEPT !.high = @ + time_factor, !.breakdown = counted]
            ELSE IF severity >= MODERATE_SEVERITY
            THEN [acc EXCEPT !.moderate = @ + time_factor, !.breakdown = counted]
            ELSE [acc EXCEPT !.low = @ + time_factor, !.breakdown = counted]

RECURSIVE loop(_, _, _, _, _)
loop(rows, i, acc, buf, today) ==
    IF i > Len(rows) THEN acc
    ELSE loop(rows, i + 1, loop_body(acc, rows[i], buf, today), buf, today)

\* the three bands weighted alike
weighted_sum_equal_weights(acc) == acc.high * 3 + acc.moderate * 3 + acc.low * 3

\* a slip of sign in the low-severity term
weighted_sum_low_subtracted(acc) == acc.high * 6 + acc.moderate * 3 - acc.low * 1

\* 100 * (high*0.6 + moderate*0.3 + low*0.1), the accumulators in tenths;
\* risk_score is weighted_sum / (100 * route_length_km) = 10 * weighted_sum / metres
weighted_sum(acc) == acc.high * 6 + acc.moderate * 3 + acc.low * 1

\* risk_score = high_per_km * 0.6 + moderate_per_km * 0.3 + low_per_km * 0.1,
\* in thousandths (rounded down)
risk_score(acc, length_m) == (10000 * weighted_sum(acc)) \div length_m

\* math.log(1 + risk_score) / math.log(1 + 10), in 1/10000
normalized_risk(wsum, length_m) ==
    IF wsum > 0
    THEN (10000 * Log2Q14(length_m + 10 * wsum, length_m)) \div LOG2_11_Q14
    ELSE 0

\* the offset 0.1 forgotten
base_score_no_offset(nrisk) == (9000 * (10000 - nrisk)) \div 10000

\* the risk not inverted: 0.1 + 0.9 * normalized_risk
base_score_not_inverted(nrisk) == 1000 + (9000 * nrisk) \div 10000

\* 0.1 + 0.9 * (1 - normalized_risk), in 1/10000
base_score(nrisk) == 1000 + (9000 * (10000 - nrisk)) \div 10000

PATROL_TYPE == "Extra Patrol Request Call"

\* min(0.05, breakdown.get("Extra Patrol Request Call", 0) * 0.01), in 1/10000
patrol_bonus(breakdown) == Min2(500, DictGet(breakdown, PATROL_TYPE, 0) * 100)

\* min(1.0, safety_score + patrol_bonus), in 1/10000
final_score(base, bonus) == Min2(10000, base + bonus)

\* round(x, 3) of a value in 1/10000, in thousandths
round3(x) == (x + 5) \div 10

Raised(exc, built, fetched) ==
    [breakdown |-> <<>>, high |-> 0, moderate |-> 0, low |-> 0, length_m |-> 0,
     fetched |-> fetched, status |-> exc, corridor |-> built, computed |-> FALSE,
     safety_score |-> 0, raw |-> <<>>, risk |-> 0]

\* score_route(points, buffer_m) against the database dbv on day today
score_route(points, buffer_m, dbv, today) ==
    IF Len(points) = 0
    THEN Raised("IndexError", FALSE, FALSE)                   \* points[0]
    ELSE IF ~dbv.table
    THEN Raised("OperationalError", TRUE, FALSE)              \* no such table
    ELSE LET buf == route_buffer(points, buffer_m)
             route_length == calculate_route_length(points)
             rows == fetchall(dbv)
             acc == loop(rows, 1,
                         [breakdown |-> <<>>, raised |-> FALSE,
                          high |-> 0, moderate |-> 0, low |-> 0],
                         buf, today)
             nrisk == normalized_risk(weighted_sum(acc), route_length)
             score == final_score(base_score(nrisk), patrol_bonus(acc.breakdown))
         IN IF acc.raised
            THEN Raised("AttributeError", TRUE, TRUE)
            ELSE IF route_length = 0
            THEN Raised("ZeroDivisionError", TRUE, TRUE)      \* x / route_length_km
            ELSE [breakdown |-> friendly_breakdown(acc.breakdown),
                  high |-> acc.high, moderate |-> acc.moderate, low |-> acc.low,
                  length_m |-> route_length,
                  fetched |-> TRUE, status |-> "ok", corridor |-> TRUE,
                  computed |-> TRUE,
                  safety_score |-> round3(score),
                  raw |-> acc.breakdown,
                  risk |-> risk_score(acc, route_length)]

\* a connection that sets up an empty incidents table in a new file
connect_creating_table(dbv) == IF dbv.file THEN dbv ELSE Table(<<>>)

\* sqlite3.connect(DB_PATH) creates the file when it is missing
connect(dbv) == IF dbv.file THEN dbv ELSE EmptyDb


(***************************************************************************)
(* ingest.py: the transformations of main() on the downloaded frame        *)
(*                                                                         *)
(* A feed row is [OccurrenceYear, FinalCaseTypeTrans, Latitude, Longitude, *)
(* OccurrenceDatetime]; a missing cell is None.  A year cell holds         *)
(* [numeric, v]: a number v, or a text pd.to_numeric cannot convert.       *)
(***************************************************************************)
VALID_CATEGORIES == DOMAIN INCIDENT_LABELS     \* the same twenty strings

TARGET_YEAR == 2025

\* pd.to_numeric(cell, errors="coerce")
to_numeric(cell) ==
    IF IsNone(cell) \/ ~Val(cell).numeric THEN None ELSE Some(Val(cell).v)

\* df[df["OccurrenceYear"] == 2025], after the numeric coercion
year_is_target(row) ==
    LET y == to_numeric(row.OccurrenceYear)
    IN ~IsNone(y) /\ Val(y) = TARGET_YEAR
filter_year(df) == SelectSeq(df, year_is_target)

\* df[df["FinalCaseTypeTrans"].isin(VALID_CATEGORIES)]
category_is_valid(row) ==
    /\ ~IsNone(row.FinalCaseTypeTrans)
    /\ Val(row.FinalCaseTypeTrans) \in VALID_CATEGORIES
filter_categories(df) == SelectSeq(df, category_is_valid)

\* a renaming that crosses the two coordinate columns
rename_crossed(df) ==
    [i \in 1..Len(df) |->
        [lon |-> df[i].Latitude,
         lat |-> df[i].Longitude,
         itype |-> df[i].FinalCaseTypeTrans,
         dt |-> df[i].OccurrenceDatetime]]

\* df[list(keep_cols.keys())].rename(columns=keep_cols)
rename(df) ==
    [i \in 1..Len(df) |->
        [lon |-> df[i].Longitude,
         lat |-> df[i].Latitude,
         itype |-> df[i].FinalCaseTypeTrans,
         dt |-> df[i].OccurrenceDatetime]]

\* df.dropna(subset=["incident_type", "latitude", "longitude", "datetime"])
row_is_complete(row) ==
    /\ ~IsNone(row.itype)
    /\ ~IsNone(row.lat)
    /\ ~IsNone(row.lon)
    /\ ~IsNone(row.dt)
\* dropna looking at the incident type only
dropna_type_only(df) == SelectSeq(df, LAMBDA row : ~IsNone(row.itype))

dropna(df) == SelectSeq(df, row_is_complete)

\* History of the properties, not of main(): the rows a run on a feed is to
\* store (ingest.py lines 43-66 read as a whole): the feed rows of the target year
\* and of a valid category that miss none of the four fields, under the
\* canonical column names, in feed order.
IsStorable(row) ==
    /\ row.OccurrenceYear = Some([v |-> TARGET_YEAR, numeric |-> TRUE])
    /\ \E c \in VALID_CATEGORIES : row.FinalCaseTypeTrans = Some(c)
    /\ row.Latitude # None
    /\ row.Longitude # None
    /\ row.OccurrenceDatetime # None
NormalizedRows(feed) ==
    LET kept == SelectSeq(feed, IsStorable)
    IN [i \in 1..Len(kept) |->
           [lon |-> kept[i].Longitude, lat |-> kept[i].Latitude,
            itype |-> kept[i].FinalCaseTypeTrans, dt |-> kept[i].OccurrenceDatetime]]

\* DB_PATH.unlink() when DB_PATH.exists()
unlink(dbv) == IF dbv.file THEN NoDb ELSE dbv

\* sqlite3.connect(DB_PATH), then the table creation of
\* df.to_sql("incidents", con, if_exists="replace", index=False)
create_table(dbv) == Table(<<>>)

\* the row insertion of to_sql and con.commit()
to_sql(dbv, df) == Table(df)

(***************************************************************************)
(* The bounded inputs                                                      *)
(***************************************************************************)
MaxRows == 2      \* rows of an initial store
MaxFeed == 2      \* rows of a downloaded feed
MaxRuns == 2      \* ingest runs
MaxElapsed == 6   \* days that pass
MaxAge == 400     \* the oldest incident weighed, in days
FutureDays == 3   \* the most future-dated incident weighed, in days

Pt(la, lo) == [lon |-> lo, lat |-> la]
Iso(d) == Some([fmt |-> "iso", day |-> d])
IsoZ(d) == Some([fmt |-> "isoZ", day |-> d])
Text == Some([fmt |-> "text", day |-> 0])
Row(t, la, lo, d) == [lon |-> lo, lat |-> la, itype |-> t, dt |-> d]

FirstDay == 400                     \* the day of the first request
LastDay == FirstDay + MaxElapsed
TickSteps == { 6 }                  \* days between two requests

A == Pt(0, 0)
B == Pt(100, 0)                     \* 1 km north of A
C == Pt(100, 60)                    \* 600 m east of B
OffRange == Pt(91 * GridPerDegree, 0)   \* latitude 91 degrees

Routes == { <<>>, <<A>>, <<A, B>>, <<A, A>>, <<A, B, C>>, <<OffRange>> }
\* the radii of library calls (POST /score-route always uses the default)
Radii == { 50, 100 }
\* the requests that arrive while the ingest job runs
ServedRoutes == { <<A, B>> }
DEFAULT_BUFFER_M == 50

\* the precondition of the interface: non-empty, every point in range
ValidRoute(points) ==
    /\ Len(points) >= 1
    /\ \A i \in 1..Len(points) :
          /\ Abs(points[i].lat) <= 90 * GridPerDegree
          /\ Abs(points[i].lon) <= 180 * GridPerDegree

\* rows a store can hold (any provenance: every column is nullable)
StoreRows ==
    { Row(Some("Assault Call"), Some(0), Some(0), Iso(FirstDay - 2)),
      Row(Some("Assault Call"), Some(50), Some(0), Iso(FirstDay)),
      Row(Some("Burglary Call"), Some(50), Some(0), Iso(FirstDay - 200)),
      Row(Some("Extra Patrol Request Call"), Some(0), Some(1), Iso(FirstDay - 300)),
      Row(Some(" Assault Call "), Some(50), Some(7), IsoZ(FirstDay - 2)),
      Row(Some("Graffiti"), Some(50), Some(0), Text),
      Row(Some("Assault"), Some(50), Some(0), Iso(FirstDay - 40)),
      Row(None, Some(50), Some(0), Iso(FirstDay - 2)),
      Row(Some("Assault Call"), None, Some(0), Iso(FirstDay - 2)),
      Row(Some("Fight Call"), Some(0), Some(0), None) }

FeedRow(y, t, la, lo, d) ==
    [OccurrenceYear |-> y, FinalCaseTypeTrans |-> t,
     Latitude |-> la, Longitude |-> lo, OccurrenceDatetime |-> d]
Year(v) == Some([v |-> v, numeric |-> TRUE])
YearText == Some([v |-> 0, numeric |-> FALSE])

FeedRows ==
    { FeedRow(Year(2025), Some("Robbery Call"), Some(50), Some(0), Iso(FirstDay - 2)),
      FeedRow(Year(2025), Some("Assault Call"), None, Some(0), Iso(FirstDay - 2)),
      FeedRow(Year(2024), Some("Robbery Call"), Some(0), Some(0), Iso(FirstDay - 300)),
      FeedRow(Year(2025), Some("Graffiti"), Some(0), Some(0), Text),
      FeedRow(Year(2025), Some("Fight Call"), Some(0), Some(0), None) }

SeqsUpTo(S, n) == UNION { [1..k -> S] : k \in 0..n }

Stores == SeqsUpTo(StoreRows, MaxRows)

\* the last rows of a store of FETCH_LIMIT - 1 + Len(rows) records
LongStoreTails ==
    SeqsUpTo({ Row(Some("Assault Call"), Some(0), Some(0), Iso(FirstDay - 2)),
               Row(Some("Burglary Call"), Some(50), Some(0), Iso(FirstDay - 200)) },
             MaxRows)
Feeds == SeqsUpTo(FeedRows, MaxFeed)


(***************************************************************************)
(* The state                                                               *)
(***************************************************************************)
VARIABLES
    db,      \* data/safety.db
    now,     \* the day datetime.now() returns
    res,     \* the last scoring request and what it returned
    pc,      \* where the ingest run is: idle, downloaded, prepared, unlinked, created
    df,      \* the ingest run's frame
    out,     \* what the last ingest run printed
    run,     \* the feed the last started run downloaded, and the db it found
    wrote,   \* the normalized rows of the last run that wrote the store
    runs,    \* the ingest runs started so far
    decay    \* the last age given to time_decay_factor and the weight returned

vars == <<db, now, res, pc, df, out, run, wrote, runs, decay>>

NoCall ==
    [buffer_m |-> 0, points |-> <<>>, called |-> FALSE, via |-> "none", at |-> 0,
     seen |-> NoDb, pcAt |-> "idle", runAt |-> 0, http |-> 0, ret |-> Raised("none", FALSE, FALSE)]

\* time_decay_factor not called yet (no weight is 0)
NotWeighed == [days_ago |-> 0, factor |-> 0]

IngestIdle ==
    /\ pc = "idle"
    /\ df = <<>>
    /\ out = [rows |-> 0, msg |-> "none"]
    /\ run = [feed |-> <<>>, prior |-> NoDb]
    /\ wrote = None
    /\ runs = 0

\* the service next to a store of any provenance and of any size
InitScore ==
    /\ db \in {NoDb} \cup {Table(s) : s \in Stores}
                   \cup {TableAfter(FETCH_LIMIT - 1, s) : s \in LongStoreTails}
    /\ now = FirstDay
    /\ res = NoCall
    /\ IngestIdle
    /\ decay = NotWeighed

\* the service and the ingest job, from no database or from an earlier one
PriorStore ==
    << Row(Some("Assault Call"), Some(0), Some(0), Iso(FirstDay - 2)),
       Row(Some("Burglary Call"), Some(50), Some(0), Iso(FirstDay - 200)) >>

Init ==
    /\ db \in {NoDb, Table(PriorStore)}
    /\ now = FirstDay
    /\ res = NoCall
    /\ IngestIdle
    /\ decay = NotWeighed

(***************************************************************************)
(* scoring.py / app.py: one scoring request                               *)
(***************************************************************************)
Request(via, points, buffer_m) ==
    \E ret \in {score_route(points, buffer_m, db, now)} :
       /\ res' = [buffer_m |-> buffer_m, points |-> points,
                  called |-> TRUE, via |-> via, at |-> now, seen |-> db, pcAt |-> pc,
                  runAt |-> runs,
                  http |-> IF via # "api" THEN 0
                           ELSE IF ret.status = "ok" THEN 200 ELSE 500,
                  ret |-> ret]
       /\ db' = IF ret.status = "IndexError" THEN db ELSE connect(db)
       /\ UNCHANGED <<now, pc, df, out, run, wrote, runs, decay>>

\* POST /score-route: score_route(points) with the default radius
score_route_api(points) == Request("api", points, DEFAULT_BUFFER_M)

\* score_route(points, buffer_m) called as a library function
score_route_call(points, buffer_m) == Request("call", points, buffer_m)

\* time passes between two requests
Tick(d) ==
    /\ now + d <= LastDay
    /\ now' = now + d
    /\ UNCHANGED <<db, res, pc, df, out, run, wrote, runs, decay>>

(***************************************************************************)
(* ingest.py: main(), one action per step that the database file or the    *)
(* output shows                                                            *)
(***************************************************************************)
\* df = download_csv(URL)
Download(feed) ==
    /\ pc = "idle"
    /\ runs < MaxRuns
    /\ pc' = "downloaded"
    /\ df' = feed
    /\ run' = [feed |-> feed, prior |-> db]
    /\ runs' = runs + 1
    /\ out' = [rows |-> Len(feed), msg |-> "running"]
    /\ UNCHANGED <<db, now, res, wrote, decay>>

\* requests.get or r.raise_for_status() raises: the run ends
DownloadFails ==
    /\ pc = "idle"
    /\ runs < MaxRuns
    /\ run' = [feed |-> <<>>, prior |-> db]
    /\ runs' = runs + 1
    /\ out' = [rows |-> 0, msg |-> "http_error"]
    /\ UNCHANGED <<db, now, res, pc, df, wrote, decay>>

\* the old database removed before the filters and the empty check
PrepareAfterUnlink ==
    /\ pc = "downloaded"
    /\ db' = unlink(db)
    /\ LET filtered == filter_categories(filter_year(df))
       IN IF filtered = <<>>
          THEN /\ out' = [rows |-> 0, msg |-> "no_rows"]
               /\ pc' = "idle"
               /\ df' = <<>>
          ELSE /\ df' = dropna(rename(filtered))
               /\ pc' = "prepared"
               /\ out' = out
    /\ UNCHANGED <<now, res, run, wrote, runs, decay>>

\* lines 43-66: the filters, the empty check, the renaming and dropna
Prepare ==
    /\ pc = "downloaded"
    /\ LET filtered == filter_categories(filter_year(df))
       IN IF filtered = <<>>
          THEN /\ out' = [rows |-> 0, msg |-> "no_rows"]
               /\ pc' = "idle"
               /\ df' = <<>>
          ELSE /\ df' = dropna(rename(filtered))
               /\ pc' = "prepared"
               /\ out' = out
    /\ UNCHANGED <<db, now, res, run, wrote, runs, decay>>

\* lines 69-71: remove the old database
Unlink ==
    /\ pc = "prepared"
    /\ db' = unlink(db)
    /\ pc' = "unlinked"
    /\ UNCHANGED <<now, res, df, out, run, wrote, runs, decay>>

\* lines 72-73: connect and create the table
CreateTable ==
    /\ pc = "unlinked"
    /\ db' = create_table(connect(db))
    /\ pc' = "created"
    /\ UNCHANGED <<now, res, df, out, run, wrote, runs, decay>>

\* the new rows merged into the records the run found
InsertMerging ==
    /\ pc = "created"
    /\ db' = Table(run.prior.rows \o df)
    /\ out' = [rows |-> Len(df), msg |-> "loaded"]
    /\ wrote' = Some(NormalizedRows(run.feed))
    /\ pc' = "idle"
    /\ df' = <<>>
    /\ UNCHANGED <<now, res, run, runs, decay>>

\* lines 73-76: insert the rows, commit, report
Insert ==
    /\ pc = "created"
    /\ db' = to_sql(db, df)
    /\ out' = [rows |-> Len(df), msg |-> "loaded"]
    /\ wrote' = Some(NormalizedRows(run.feed))
    /\ pc' = "idle"
    /\ df' = <<>>
    /\ UNCHANGED <<now, res, run, runs, decay>>

(***************************************************************************)
(* scoring.py: time_decay_factor called on its own                         *)
(***************************************************************************)
\* the ages the function is given: delta.days of a timestamp up to
\* FutureDays days ahead of the clock or up to MaxAge days behind it
Ages == (0 - FutureDays)..MaxAge

\* time_decay_factor(days_ago)
Weigh(days_ago) ==
    /\ decay' = [days_ago |-> days_ago, factor |-> time_decay_factor(days_ago)]
    /\ UNCHANGED <<db, now, res, pc, df, out, run, wrote, runs>>

InitDecay ==
    /\ db = NoDb
    /\ now = FirstDay
    /\ res = NoCall
    /\ IngestIdle
    /\ decay = NotWeighed

NextDecay == \E days_ago \in Ages : Weigh(days_ago)

SpecDecay == InitDecay /\ [][NextDecay]_vars

\* the service alone, as time passes
NextScore ==
    \/ \E points \in Routes : score_route_api(points)
    \/ \E points \in Routes, buffer_m \in Radii : score_route_call(points, buffer_m)
    \/ \E d \in TickSteps : Tick(d)

\* the service next to the ingest job (neither the job nor the life of the
\* store reads the clock: the day is the one of Init)
Next ==
    \/ \E points \in ServedRoutes : score_route_api(points)
    \/ \E feed \in Feeds : Download(feed)
    \/ DownloadFails
    \/ Prepare
    \/ Unlink
    \/ CreateTable
    \/ Insert

SpecScore == InitScore /\ [][NextScore]_vars
Spec == Init /\ [][Next]_vars


(***************************************************************************)
(* Properties of the scoring request (SpecScore)                           *)
(***************************************************************************)
Returned == res.called /\ res.ret.status = "ok"

\* the corridor of the last request
ResCorridor == route_buffer(res.points, res.buffer_m)

\* no row of the store the request read lies in its corridor
NoneInCorridor ==
    \A i \in 1..Len(res.seen.rows) : ~in_corridor(ResCorridor, res.seen.rows[i])

\* the last request repeated on the store with one more row
WithRow(row) ==
    score_route(res.points, res.buffer_m,
                [res.seen EXCEPT !.rows = Append(res.seen.rows, row)], res.at)

\* incidents that may be added to the store on the day of the request
AddedRows ==
    { Row(Some("Fight Call"), Some(0), Some(0), Iso(res.at - 7)),
      Row(Some(" Assault Call "), Some(50), Some(0), IsoZ(res.at)),
      Row(Some("Sexual Abuse Call"), Some(50), Some(7), Iso(res.at - 8)),
      Row(Some("Graffiti"), Some(0), Some(0), Text),
      Row(Some("Burglary Call"), Some(50), Some(0), Iso(res.at - 200)),
      Row(Some("Extra Patrol Request Call"), Some(0), Some(0), Iso(res.at - 300)),
      Row(Some("Extra Patrol Request Call "), Some(50), Some(0), Iso(res.at)) }

IsHighSeverity(row) == severity_of(Val(row.itype)) >= HIGH_SEVERITY
IsRecent(row) == fromisoformat_ok(row.dt) /\ days_since(row.dt, res.at) <= 7
IsPatrol(row) == strip(Val(row.itype)) = PATROL_TYPE
AddedInCorridor == { row \in AddedRows : in_corridor(ResCorridor, row) }

\* C1: every score returned for a valid route lies in [0.1, 1.0].
C1_ScoreInRange ==
    (Returned /\ ValidRoute(res.points))
        => (res.ret.safety_score >= 100 /\ res.ret.safety_score <= 1000)

\* C2: a request whose corridor holds no stored incident (the incidents table
\* exists, with or without rows) returns 1.0 and an empty breakdown and
\* raises nothing.
C2_CleanRouteScoresCeiling ==
    (res.called /\ Len(res.points) >= 1 /\ res.seen.table /\ NoneInCorridor)
        => /\ res.ret.status = "ok"
           /\ res.ret.safety_score = 1000
           /\ res.ret.breakdown = <<>>

C2_Witness ==
    /\ res.called
    /\ ValidRoute(res.points)
    /\ res.seen.table
    /\ Len(res.seen.rows) = MaxRows
    /\ NoneInCorridor
    /\ res.ret.safety_score = 1000

\* C3: one more high-severity, recent incident inside the corridor never
\* increases the score of the same route at the same instant.
C3_HighRecentNeverIncreases ==
    Returned =>
        \A row \in AddedInCorridor :
            (IsHighSeverity(row) /\ IsRecent(row))
                => \A again \in {WithRow(row)} :
                      /\ again.status = "ok"
                      /\ again.safety_score <= res.ret.safety_score

C3_Witness ==
    /\ Returned
    /\ Len(res.seen.rows) > 0
    /\ \E row \in AddedInCorridor :
          /\ IsHighSeverity(row) /\ IsRecent(row)
          /\ WithRow(row).safety_score < res.ret.safety_score

\* C4 as stated: one more incident of any type inside the corridor never
\* raises the score.
C4_AnyIncidentNeverRaises ==
    Returned =>
        \A row \in AddedInCorridor :
            WithRow(row).safety_score <= res.ret.safety_score

\* C4 amended: one more incident inside the corridor whose trimmed type is not
\* the proactive-patrol type never raises the score.
C4_NonPatrolNeverRaises ==
    Returned =>
        \A row \in AddedInCorridor :
            ~IsPatrol(row)
                => \A again \in {WithRow(row)} :
                      /\ again.status = "ok"
                      /\ again.safety_score <= res.ret.safety_score

C4_Witness ==
    /\ Returned
    /\ \E row \in AddedInCorridor :
          /\ ~IsPatrol(row) /\ ~IsHighSeverity(row)
          /\ WithRow(row).safety_score < res.ret.safety_score
    /\ \E row \in AddedInCorridor :
          /\ IsPatrol(row)
          /\ WithRow(row).safety_score > res.ret.safety_score

\* C7: whatever anomalies the stored rows carry, a request with a valid route
\* on an existing table returns a result.
C7_AnomaliesAbsorbed ==
    (res.called /\ ValidRoute(res.points) /\ res.seen.table)
        => res.ret.status = "ok"

\* C8: for an invalid route the request builds no corridor, reads no store and
\* computes no score.
C8_InvalidRouteRejected ==
    (res.called /\ ~ValidRoute(res.points))
        => /\ ~res.ret.corridor
           /\ ~res.ret.fetched
           /\ ~res.ret.computed

(***************************************************************************)
(* Properties of the store (Spec)                                          *)
(***************************************************************************)
\* C6: a request made while a run replaces a store by its rows reads the
\* incidents table and sees the complete records the run found or the
\* complete records it writes, never a missing table or an empty one.
C6_ReplaceIsAtomic ==
    (/\ res.called
     /\ Len(res.points) >= 1
     /\ res.runAt = runs
     /\ res.pcAt # "idle"
     /\ run.prior.table
     /\ NormalizedRows(run.feed) # <<>>)
        => /\ res.ret.fetched
           /\ res.seen.rows \in {run.prior.rows, NormalizedRows(run.feed)}

\* C9: a finished run that had no row to store has reported "no rows" and has
\* left the store it found as it was.
C9_EmptyRunKeepsStore ==
    (/\ pc = "idle"
     /\ out.msg \in {"no_rows", "loaded"}
     /\ NormalizedRows(run.feed) = <<>>
     /\ run.prior.table)
        => /\ out.msg = "no_rows"
           /\ db = run.prior

\* C10: between runs the store holds exactly the normalized rows of the last
\* run that wrote it.
C10_StoreIsLastWrite ==
    (pc = "idle" /\ wrote # None) => db = Table(Val(wrote))

C10_Witness ==
    /\ pc = "idle"
    /\ runs = MaxRuns
    /\ out.msg = "loaded"
    /\ Len(run.prior.rows) > Len(db.rows)
    /\ Len(db.rows) > 0

\* a stored record that misses none of the four fields and whose type is in
\* the category vocabulary
RecordIsWellFormed(row) ==
    /\ ~IsNone(row.itype)
    /\ ~IsNone(row.lat)
    /\ ~IsNone(row.lon)
    /\ ~IsNone(row.dt)
    /\ Val(row.itype) \in VALID_CATEGORIES

\* C11: once an ingest run has written the store, every record of the store
\* has a latitude, a longitude, an incident type and a datetime, and its type
\* belongs to VALID_CATEGORIES.
C11_StoredRecordsWellFormed ==
    wrote # None => \A i \in 1..Len(db.rows) : RecordIsWellFormed(db.rows[i])

\* a run has stored a record of a feed that also held a row without latitude
\* or without datetime
C11_Witness ==
    /\ pc = "idle"
    /\ out.msg = "loaded"
    /\ Len(db.rows) > 0
    /\ \E i \in 1..Len(run.feed) :
          /\ year_is_target(run.feed[i])
          /\ category_is_valid(run.feed[i])
          /\ (IsNone(run.feed[i].Latitude) \/ IsNone(run.feed[i].OccurrenceDatetime))

\* the last started run has ended after the filters (nothing left) or after
\* the write
RunFinished == pc = "idle" /\ out.msg \in {"no_rows", "loaded"}

\* the four required fields of a feed row are populated
Populated(row) ==
    /\ ~IsNone(row.FinalCaseTypeTrans)
    /\ ~IsNone(row.Latitude)
    /\ ~IsNone(row.Longitude)
    /\ ~IsNone(row.OccurrenceDatetime)

\* the row is of the target year and of a category of the vocabulary
Eligible(row) == year_is_target(row) /\ category_is_valid(row)

\* the record of a feed row under the canonical names, values unchanged
Canonical(row) ==
    Row(row.FinalCaseTypeTrans, row.Latitude, row.Longitude, row.OccurrenceDatetime)

\* how many elements of a sequence equal x
Occurrences(seq, x) == Cardinality({i \in 1..Len(seq) : seq[i] = x})

\* C12 as stated: after a run, every feed row with the four required fields
\* populated has exactly one stored record, its canonical one, and a feed row
\* without latitude has none.
C12_PopulatedRowStoredOnce ==
    RunFinished =>
        \A i \in 1..Len(run.feed) :
            /\ Populated(run.feed[i])
                  => Occurrences(db.rows, Canonical(run.feed[i]))
                        = Occurrences(run.feed, run.feed[i])
            /\ IsNone(run.feed[i].Latitude)
                  => Occurrences(db.rows, Canonical(run.feed[i])) = 0

\* C12 amended: after a run, every feed row of the target year and of a valid
\* category with the four required fields populated has exactly one stored
\* record, its canonical one; the store holds nothing else, and a feed row
\* without latitude has no record.
C12_EligibleRowStoredOnce ==
    RunFinished =>
        /\ \A i \in 1..Len(run.feed) :
              /\ (Populated(run.feed[i]) /\ Eligible(run.feed[i]))
                    => /\ out.msg = "loaded"
                       /\ Occurrences(db.rows, Canonical(run.feed[i]))
                             = Occurrences(run.feed, run.feed[i])
              /\ IsNone(run.feed[i].Latitude)
                    => Occurrences(db.rows, Canonical(run.feed[i])) = 0
        /\ out.msg = "loaded"
              => Len(db.rows) = Cardinality({i \in 1..Len(run.feed) :
                                    Populated(run.feed[i]) /\ Eligible(run.feed[i])})

\* a run on a feed with one storable row and one row without latitude has
\* stored exactly one record
C12_Witness ==
    /\ RunFinished
    /\ out.msg = "loaded"
    /\ Len(run.feed) = 2
    /\ Len(db.rows) = 1
    /\ \E i \in 1..2 : Populated(run.feed[i]) /\ Eligible(run.feed[i])
    /\ \E i \in 1..2 : IsNone(run.feed[i].Latitude)

\* a step of the ingest job: each of them moves the job or starts a run
IngestStep == pc' # pc \/ runs' # runs

\* C13: a step that is not a step of the ingest job, that is every scoring
\* call, returning or raising, leaves the incidents table and its records as
\* they were.
C13_ScoringKeepsStore ==
    [][~IngestStep => (db'.table = db.table /\ db'.rows = db.rows)]_vars

\* a call that raised for want of a database and a call that returned have
\* both left the records they found
C13_Witness ==
    /\ res.called
    /\ res.ret.status \in {"ok", "OperationalError"}
    /\ res.runAt = runs
    /\ res.pcAt = pc
    /\ db.file
    /\ db.table = res.seen.table
    /\ db.rows = res.seen.rows
    /\ (res.ret.status = "ok" => Len(db.rows) > 0)
    /\ (res.ret.status = "OperationalError" => ~res.seen.file)

(***************************************************************************)
(* The concrete scenario (SpecScore)                                       *)
(***************************************************************************)
\* the last request scored the 1 km route from A to B with radius 50 m on a
\* store whose only record is an "Assault Call" at the midpoint, dated the
\* day of the request
AssaultAtMidpointToday ==
    /\ res.called
    /\ res.points = <<A, B>>
    /\ res.buffer_m = 50
    /\ res.seen.table
    /\ res.seen.lead = 0
    /\ res.seen.rows = << Row(Some("Assault Call"), Some(50), Some(0), Iso(res.at)) >>

\* C14 as stated: in the scenario the high band holds severity * time_factor
\* = 0.8 * 1.0 for the one incident (the per-km density times the length of
\* 1 km), and the score is below 1.0 and at least 0.1.
C14_DensityIsSeverityTimesFactor ==
    AssaultAtMidpointToday =>
        /\ res.ret.status = "ok"
        /\ res.ret.high * 100 = severity_of("Assault Call") * time_decay_factor(0)
        /\ res.ret.safety_score < 1000
        /\ res.ret.safety_score >= 100

\* C14 amended: in the scenario the high band holds time_factor = 1.0 for the
\* one incident, whose severity 0.8 only selects the band; the other bands are
\* empty, the length is 1 km, and the score is below 1.0 and at least 0.1.
C14_DensityIsTimeFactor ==
    AssaultAtMidpointToday =>
        /\ res.ret.status = "ok"
        /\ severity_of("Assault Call") >= HIGH_SEVERITY
        /\ res.ret.high = time_decay_factor(0)
        /\ res.ret.moderate = 0
        /\ res.ret.low = 0
        /\ res.ret.length_m \in 1000..1002
        /\ res.ret.safety_score < 1000
        /\ res.ret.safety_score >= 100

C14_Witness ==
    /\ AssaultAtMidpointToday
    /\ res.ret.status = "ok"
    /\ res.ret.high = 10
    /\ res.ret.safety_score = 824

(***************************************************************************)
(* The breakdown (SpecScore)                                               *)
(***************************************************************************)
\* the label an incident type is shown under
LabelOf(itype) ==
    IF strip(itype) \in DOMAIN INCIDENT_LABELS
    THEN INCIDENT_LABELS[strip(itype)]
    ELSE strip(itype)

\* the positions of the records the last request read inside its corridor
InCorridorRecords ==
    { i \in 1..Len(res.seen.rows) : in_corridor(ResCorridor, res.seen.rows[i]) }

\* the records inside the corridor shown under a label
RecordsLabelled(label) ==
    { i \in InCorridorRecords : LabelOf(Val(res.seen.rows[i].itype)) = label }

\* C15: the returned breakdown counts, under each label, the records inside
\* the corridor whose trimmed type translates to that label, and it has an
\* entry for every such record.
C15_BreakdownCountsEveryIncident ==
    (Returned /\ res.seen.lead = 0) =>
        /\ \A label \in DictKeys(res.ret.breakdown) :
              DictGet(res.ret.breakdown, label, 0) = Cardinality(RecordsLabelled(label))
        /\ \A i \in InCorridorRecords :
              LabelOf(Val(res.seen.rows[i].itype)) \in DictKeys(res.ret.breakdown)

(***************************************************************************)
(* Properties of time_decay_factor (SpecDecay)                             *)
(***************************************************************************)
Weighed == decay.factor # 0

\* C16: time_decay_factor is monotone non-increasing in the age: a call on
\* an age that is not smaller than the age of the call before, negative ages
\* included, returns a weight that is not larger.
C16_DecayIsMonotone ==
    [][(Weighed /\ decay.days_ago <= decay'.days_ago)
          => decay'.factor <= decay.factor]_vars

\* an incident of 40 days has been weighed strictly less than 1.0, the weight of
\* an incident of 5 days
C16_Witness ==
    /\ Weighed
    /\ decay.days_ago = 40
    /\ decay.factor < time_decay_factor(5)
    /\ time_decay_factor(0 - FutureDays) = time_decay_factor(5)

\* the weight, in tenths, that the step table gives to an age
StepOf(d) ==
    CASE d <= 7 -> 10
      [] d > 7 /\ d <= 30 -> 8
      [] d > 30 /\ d <= 90 -> 6
      [] d > 90 /\ d <= 180 -> 4
      [] d > 180 /\ d <= 365 -> 2
      [] d > 365 -> 1

\* C19: time_decay_factor returns 1.0 up to 7 days, 0.8 up to 30, 0.6 up to
\* 90, 0.4 up to 180, 0.2 up to 365 and 0.1 beyond, each breakpoint
\* belonging to the more recent step.
C19_DecaySteps ==
    Weighed => decay.factor = StepOf(decay.days_ago)

\* the last breakpoint has been weighed with the step of the last year
C19_Witness ==
    /\ Weighed
    /\ decay.days_ago = 365
    /\ decay.factor = 2

(***************************************************************************)
(* The route length (SpecScore)                                            *)
(***************************************************************************)
\* C17: a request for a single-point route never raises a division by zero,
\* and when it returns the length it was scored with is 0.1 km.
C17_SinglePointLength ==
    (res.called /\ Len(res.points) = 1)
        => /\ res.ret.status # "ZeroDivisionError"
           /\ res.ret.status = "ok" => res.ret.length_m = MIN_LENGTH_M

\* a single-point route with a record in its corridor has been scored on
\* 0.1 km
C17_Witness ==
    /\ Returned
    /\ Len(res.points) = 1
    /\ InCorridorRecords # {}
    /\ res.ret.length_m = 100
    /\ res.ret.safety_score < 1000

(***************************************************************************)
(* The spatial filter (SpecScore)                                          *)
(***************************************************************************)
\* the sum of the counts of a breakdown
RECURSIVE TotalCount(_, _)
TotalCount(breakdown, i) ==
    IF i > Len(breakdown) THEN 0 ELSE breakdown[i][2] + TotalCount(breakdown, i + 1)

\* the sum of the time factors of the records of the corridor from position i
RECURSIVE TotalFactor(_)
TotalFactor(i) ==
    IF i > Len(res.seen.rows) THEN 0
    ELSE (IF i \in InCorridorRecords
          THEN time_decay_factor(days_since(res.seen.rows[i].dt, res.at))
          ELSE 0) + TotalFactor(i + 1)

\* C18: every record of the store that lies inside the corridor is counted in
\* the breakdown and adds its time factor to a band, however many records
\* the store holds.
C18_FilterIsComplete ==
    Returned =>
        /\ TotalCount(res.ret.raw, 1) = Cardinality(InCorridorRecords)
        /\ res.ret.high + res.ret.moderate + res.ret.low = TotalFactor(1)

(***************************************************************************)
(* The severity lookup (SpecScore)                                         *)
(***************************************************************************)
\* the trimmed type of the record at position i
TrimmedType(i) == strip(Val(res.seen.rows[i].itype))

\* the severity the weight table gives to a trimmed type, in hundredths
TableSeverity(trimmed) ==
    IF trimmed \in DOMAIN SEVERITY_WEIGHT THEN SEVERITY_WEIGHT[trimmed] ELSE 15

BandOfSeverity(sev) ==
    IF sev >= 60 THEN "high" ELSE IF sev >= 30 THEN "moderate" ELSE "low"

\* the sum of the time factors of the records of the corridor, from position
\* i on, whose severity falls into the band
RECURSIVE BandFactor(_, _)
BandFactor(band, i) ==
    IF i > Len(res.seen.rows) THEN 0
    ELSE (IF /\ i \in InCorridorRecords
             /\ BandOfSeverity(TableSeverity(TrimmedType(i))) = band
          THEN time_decay_factor(days_since(res.seen.rows[i].dt, res.at))
          ELSE 0) + BandFactor(band, i + 1)

\* C20: every record of the corridor is weighed in the band of the severity
\* the weight table gives to its trimmed type, 0.15 and so the low band when
\* the table has no entry; records whose types differ by surrounding
\* whitespace only are counted under one entry of the breakdown, their
\* trimmed type.
C20_SeverityOfTrimmedType ==
    (Returned /\ res.seen.lead = 0) =>
        /\ res.ret.high = BandFactor("high", 1)
        /\ res.ret.moderate = BandFactor("moderate", 1)
        /\ res.ret.low = BandFactor("low", 1)
        /\ \A i \in InCorridorRecords :
              DictGet(res.ret.raw, TrimmedType(i), 0)
                 = Cardinality({j \in InCorridorRecords : TrimmedType(j) = TrimmedType(i)})

\* a padded and an unpadded type of the corridor have been weighed alike and
\* counted together
C20_Witness ==
    /\ Returned
    /\ res.seen.lead = 0
    /\ \E i, j \in InCorridorRecords :
          /\ res.seen.rows[i].itype # res.seen.rows[j].itype
          /\ TrimmedType(i) = TrimmedType(j)
          /\ DictGet(res.ret.raw, TrimmedType(i), 0) = 2
    /\ res.ret.high = 20
    /\ res.ret.low = 0

(***************************************************************************)
(* The severity bands (SpecScore)                                          *)
(***************************************************************************)
\* incidents at the start of the route, on and off the two thresholds, that
\* may be added to the store on the day of the request
BandRows ==
    { Row(Some("Shooting Call"), Some(0), Some(0), Iso(res.at)),
      Row(Some("Fight Call"), Some(0), Some(0), Iso(res.at)),
      Row(Some("Burglary Call"), Some(0), Some(0), Iso(res.at - 40)),
      Row(Some("Criminal Damage Call"), Some(0), Some(0), Iso(res.at - 40)),
      Row(Some("Unknown Trouble Call"), Some(0), Some(0), Iso(res.at - 100)) }

\* what one more record adds to a band: its time factor when its severity
\* falls into the band, nothing otherwise
AddsTo(band, row) ==
    IF BandOfSeverity(TableSeverity(strip(Val(row.itype)))) = band
    THEN time_decay_factor(days_since(row.dt, res.at))
    ELSE 0

\* C21: one more record inside the corridor adds its time factor, and nothing
\* but its time factor, to exactly one band: high from severity 0.6 on,
\* moderate from 0.3 on, low below; records of one band and one age add the
\* same amount.
C21_OneBandPerIncident ==
    (Returned /\ res.seen.lead = 0) =>
        \A row \in BandRows :
            in_corridor(ResCorridor, row) =>
                \A again \in {WithRow(row)} :
                    /\ again.status = "ok"
                    /\ again.high = res.ret.high + AddsTo("high", row)
                    /\ again.moderate = res.ret.moderate + AddsTo("moderate", row)
                    /\ again.low = res.ret.low + AddsTo("low", row)

\* on a store with records, a record of severity 0.6 has been added to the
\* high band like one of severity 0.9, and one of severity 0.3 to the
\* moderate band like one of severity 0.4
C21_Witness ==
    /\ Returned
    /\ res.seen.lead = 0
    /\ InCorridorRecords # {}
    /\ \A row \in BandRows : in_corridor(ResCorridor, row)
    /\ \A row \in BandRows :
          (Val(row.itype) \in {"Fight Call", "Shooting Call"})
              => WithRow(row).high = res.ret.high + 10
    /\ \A row \in BandRows :
          (Val(row.itype) \in {"Criminal Damage Call", "Burglary Call"})
              => WithRow(row).moderate = res.ret.moderate + 6

(***************************************************************************)
(* The raw risk and its compression (SpecScore)                            *)
(***************************************************************************)
\* C22: the raw risk is (0.6 * high + 0.3 * moderate + 0.1 * low) divided by
\* the route length in km (in thousandths, rounded down: the accumulators are
\* in tenths and the length in metres).
C22_RiskIsWeightedDensity ==
    Returned =>
        res.ret.risk
            = (1000 * (60 * res.ret.high + 30 * res.ret.moderate + 10 * res.ret.low))
                 \div res.ret.length_m

\* a 1 km route with a recent high-severity record and an old
\* moderate-severity record: (0.6 * 1.0 + 0.3 * 0.2) / 1.001 = 0.659
C22_Witness ==
    /\ Returned
    /\ res.ret.high = 10
    /\ res.ret.moderate = 2
    /\ res.ret.low = 0
    /\ res.ret.length_m = 1001
    /\ res.ret.risk = 659

\* the compressed risk of the last request, in 1/10000
NormalizedRiskOfResult ==
    normalized_risk(weighted_sum(res.ret), res.ret.length_m)

\* C23: the compressed risk log(1 + r) / log(11) of every returned request
\* lies in [0, 1): it is 0 when the raw risk is 0 and it stays below 1.
C23_NormalizedRiskBelowOne ==
    Returned =>
        /\ NormalizedRiskOfResult >= 0
        /\ NormalizedRiskOfResult < 10000
        /\ weighted_sum(res.ret) = 0 => NormalizedRiskOfResult = 0

(***************************************************************************)
(* The assembly of the score (SpecScore)                                   *)
(***************************************************************************)
\* the records of the corridor tagged as proactive patrol activity
PatrolRecords ==
    { i \in InCorridorRecords : TrimmedType(i) = "Extra Patrol Request Call" }

\* 0.1 + 0.9 * (1 - normalized_risk) of the last request, in 1/10000
BaseOfResult == 1000 + (9000 * (10000 - NormalizedRiskOfResult)) \div 10000

\* min(0.05, 0.01 * patrol records), in 1/10000
BonusOfResult == Min2(500, 100 * Cardinality(PatrolRecords))

\* C24: the returned score is the base score floored at 0.1, plus the patrol
\* bonus of 0.01 for each patrol record of the corridor and of 0.05 at most,
\* capped at 1.0.
C24_ScoreAssembly ==
    (Returned /\ res.seen.lead = 0) =>
        /\ BonusOfResult <= 500
        /\ res.ret.safety_score
              = round3(Min2(10000, Max2(1000, BaseOfResult) + BonusOfResult))

(***************************************************************************)
(* Unparseable timestamps (SpecScore)                                      *)
(***************************************************************************)
\* incidents at the start of the route whose timestamp is a text that is not
\* an ISO date, or is missing
UnparseableRows ==
    { Row(Some("Assault Call"), Some(0), Some(0), Text),
      Row(Some("Burglary Call"), Some(0), Some(0), None) }

\* the same incident dated 365 days before the request
Dated365(row) == [row EXCEPT !.dt = Iso(res.at - 365)]

\* C25: one more record inside the corridor whose timestamp cannot be parsed
\* is weighed like the same record 365 days old, with the time factor 0.2; it
\* is counted in the breakdown and the call returns.
C25_UnparseableIsYearOld ==
    (Returned /\ res.seen.lead = 0) =>
        \A row \in UnparseableRows :
            in_corridor(ResCorridor, row) =>
                \A again \in {WithRow(row)}, aged \in {WithRow(Dated365(row))} :
                    /\ again.status = "ok"
                    /\ again.high = aged.high
                    /\ again.moderate = aged.moderate
                    /\ again.low = aged.low
                    /\ again.safety_score = aged.safety_score
                    /\ again.high + again.moderate + again.low
                          = res.ret.high + res.ret.moderate + res.ret.low + 2
                    /\ DictGet(again.raw, Val(row.itype), 0)
                          = DictGet(res.ret.raw, Val(row.itype), 0) + 1

\* a record with a text for a timestamp has been added to a store that held
\* a record of the corridor, and has weighed 0.2 in the high band
C25_Witness ==
    /\ Returned
    /\ res.seen.lead = 0
    /\ InCorridorRecords # {}
    /\ \A row \in UnparseableRows : in_corridor(ResCorridor, row)
    /\ \E row \in UnparseableRows :
          /\ row.dt = Text
          /\ WithRow(row).high = res.ret.high + 2
          /\ WithRow(row).safety_score < res.ret.safety_score

(***************************************************************************)
(* The minimum route length (SpecScore)                                    *)
(***************************************************************************)
\* C26: every request for a non-empty route is scored on a length of at least
\* 0.1 km, routes of coinciding points included, and none raises a division
\* by zero.
C26_LengthAtLeastMinimum ==
    (res.called /\ Len(res.points) >= 1)
        => /\ res.ret.status # "ZeroDivisionError"
           /\ calculate_route_length(res.points) >= MIN_LENGTH_M
           /\ res.ret.status = "ok" => res.ret.length_m >= MIN_LENGTH_M

\* a route of two coinciding points with a record in its corridor has been
\* scored on 0.1 km
C26_Witness ==
    /\ Returned
    /\ Len(res.points) = 2
    /\ res.points[1] = res.points[2]
    /\ InCorridorRecords # {}
    /\ res.ret.length_m = 100
    /\ res.ret.risk > 0

(***************************************************************************)
(* The passing of time (SpecScore)                                         *)
(***************************************************************************)
\* days after the last request at which it is made again
Delays == { 6, 30, 100 }

\* the last request made again d days later on the same store
AfterDays(d) == score_route(res.points, res.buffer_m, res.seen, res.at + d)

\* C27: for the same route, radius and store, a request made later never
\* returns a lower score.
C27_ScoreGrowsWithTime ==
    Returned =>
        \A d \in Delays :
            \A later \in {AfterDays(d)} :
                /\ later.status = "ok"
                /\ later.safety_score >= res.ret.safety_score

\* a request on a store with a recent record and a record without a parseable
\* timestamp scores higher 30 days later, and no lower the day after
C27_Witness ==
    /\ Returned
    /\ Cardinality(InCorridorRecords) = 2
    /\ \E i \in InCorridorRecords : ~fromisoformat_ok(res.seen.rows[i].dt)
    /\ AfterDays(30).safety_score > res.ret.safety_score
    /\ AfterDays(1).safety_score = res.ret.safety_score

(***************************************************************************)
(* Runs that store nothing (Spec)                                          *)
(***************************************************************************)
\* C28: the steps of a run up to its empty check (the download, its failure,
\* the filters) leave the database as it is, so that a run that fails to
\* download or finds no row of the target year and a valid category neither
\* deletes, rewrites nor creates it; a step of the job changes the database
\* only once the rows to store are prepared.
C28_FailedRunKeepsStore ==
    [][IngestStep =>
          /\ pc \in {"idle", "downloaded"} => db' = db
          /\ db' # db => (pc \in {"prepared", "unlinked", "created"}
                             /\ df = NormalizedRows(run.feed))]_vars

\* after a first run that stored nothing and a second one that failed to
\* download, the store is the one found, and a run that found no row to keep
\* has ended next to no database without creating one
C28_Witness ==
    /\ pc = "idle"
    /\ runs = MaxRuns
    /\ out.msg \in {"http_error", "no_rows"}
    /\ wrote = None
    /\ db = run.prior
    /\ (out.msg = "http_error" => db = Table(PriorStore))
    /\ (out.msg = "no_rows" => (db = NoDb /\ Len(run.feed) > 0))

(***************************************************************************)
(* The order of the rows (SpecScore)                                       *)
(***************************************************************************)
\* the orders in which the records of a table can be stored
Reorderings(rows) ==
    { [i \in 1..Len(rows) |-> rows[p[i]]] : p \in Permutations(1..Len(rows)) }

\* the stores one record larger than the one the last request read: a
\* further incident at the midpoint of the route A, B, or one of AddedRows
LargerStores ==
    { Append(res.seen.rows, row) :
        row \in AddedRows
                \cup { Row(Some("Assault"), Some(50), Some(0), Iso(res.at - 40)),
                       Row(Some("Assault Call"), Some(50), Some(0), Iso(res.at)) } }

\* the last request on a table of the given rows
OnRows(rows) == score_route(res.points, res.buffer_m, Table(rows), res.at)

\* C29: on a store of at most 5000 rows, the last request returns the same
\* score and the same breakdown mapping in whatever order the rows of the
\* store are kept.
C29_RowOrderIrrelevant ==
    (Returned /\ res.seen.lead = 0) =>
        \A rows \in {res.seen.rows} \cup LargerStores :
            \A first \in {OnRows(rows)} :
                \A other \in Reorderings(rows) :
                    \A second \in {OnRows(other)} :
                        /\ second.status = first.status
                        /\ second.safety_score = first.safety_score
                        /\ DictMap(second.breakdown) = DictMap(first.breakdown)

(***************************************************************************)
(* Conservation of counts (SpecScore)                                      *)
(***************************************************************************)
\* the positions of the fetched records the loop does not skip
FetchedInCorridor ==
    { i \in 1..Len(fetchall(res.seen)) :
        in_corridor(ResCorridor, fetchall(res.seen)[i]) }

\* C30: the counts of the returned breakdown add up to the number of fetched
\* records with coordinates that lie inside the corridor, which is the
\* number of records added to a band accumulator.
C30_CountsAreConserved ==
    Returned => TotalCount(res.ret.breakdown, 1) = Cardinality(FetchedInCorridor)

=============================================================================
